---- MODULE Spec2Model ----
(***************************************************************************)
(* Model of the AI Model Hallucination Tracker core:                       *)
(*   src/src/hallucination_detector.py  (HallucinationDetector)            *)
(*   src/src/scoring.py                 (HallucinationScorer)              *)
(*   src/src/visualization.py           (the __main__ pipeline)            *)
(*                                                                         *)
(* Numbers.  Every score of the program is a decimal with at most three    *)
(* fractional digits in the inputs considered here, so scores are kept as  *)
(* integers counting thousandths: 0.4 is 400, 1.0 is 1000.  round(x, 2)    *)
(* is rounding of thousandths to a multiple of ten, ties to even.  The     *)
(* float sums the detector can form (0.4+0.2, 0.4+0.3, 0.2+0.3,            *)
(* 0.4+0.2+0.3) compare against 0.6, 0.4 and 1.0 as the exact decimals     *)
(* do, and the three-digit inputs used for the scorer (0.125, 0.375) are   *)
(* dyadic, so the float computation and the decimal one agree on them.     *)
(* The averages are not rounded by the program, so they are computed in    *)
(* float64 (see the float64 section).                                      *)
(*                                                                         *)
(* Text.  A string is a sequence of one-character strings, so that         *)
(* str(), strip(), lower(), len(), substring search and the digit search   *)
(* are computed character by character.                                    *)
(***************************************************************************)
EXTENDS Integers, Sequences, FiniteSets, TLC

VARIABLES
  arg,        \* the argument of score_response
  ret,        \* what score_response returned, <<>> before the call
  df,         \* the caller's DataFrame
  out,        \* <<the DataFrame the last call returned>>, <<>> if none
  err,        \* the exception the last call raised, "none" if none
  op,         \* the last call
  sum_algo    \* how the installed pandas sums a group for "mean"

vars == <<arg, ret, df, out, err, op, sum_algo>>

----------------------------------------------------------------------------
(* Bounds of the model *)

\* longest text, counted in tokens of Tokens
MaxTokens == 3

\* longest table, counted in rows
MaxRows == 3

----------------------------------------------------------------------------
(* Values *)

\* a Python str
Str(chars) == [tag |-> "str", chars |-> chars]

\* the Python object None
None == [tag |-> "None", chars |-> <<>>]

\* the float nan pandas stores for a missing cell
NaN == [tag |-> "nan", chars |-> <<>>]

\* str with nan printed the way repr prints a numpy scalar, "np.float64(nan)"
str_repr(x) ==
  CASE x.tag = "str" -> x.chars
    [] x.tag = "None" -> <<"N", "o", "n", "e">>
    [] x.tag = "nan" -> <<"n", "p", ".", "f", "l", "o", "a", "t", "6", "4", "(", "n", "a", "n", ")">>

\* str(x): a str is itself, None prints as "None", nan prints as "nan"
str(x) ==
  CASE x.tag = "str" -> x.chars
    [] x.tag = "None" -> <<"N", "o", "n", "e">>
    [] x.tag = "nan" -> <<"n", "a", "n">>

Whitespace == {" ", "\t"}

Digits == {"0", "1", "2", "3", "4", "5", "6", "7", "8", "9"}

UpperCase == <<"A", "B", "C", "D", "E", "F", "G", "H", "I", "J", "K", "L", "M",
               "N", "O", "P", "Q", "R", "S", "T", "U", "V", "W", "X", "Y", "Z">>

LowerCase == <<"a", "b", "c", "d", "e", "f", "g", "h", "i", "j", "k", "l", "m",
               "n", "o", "p", "q", "r", "s", "t", "u", "v", "w", "x", "y", "z">>

\* one character of s.lower()
LowerChar(c) ==
  IF \E i \in 1..26 : UpperCase[i] = c
    THEN LowerCase[CHOOSE i \in 1..26 : UpperCase[i] = c]
    ELSE c

\* s.lower()
lower(s) == [i \in 1..Len(s) |-> LowerChar(s[i])]

\* s.strip(): drops the leading and the trailing whitespace
strip(s) ==
  LET inked == {i \in 1..Len(s) : s[i] \notin Whitespace}
  IN IF inked = {} THEN <<>>
     ELSE LET first == CHOOSE i \in inked : \A j \in inked : i <= j
              last == CHOOSE i \in inked : \A j \in inked : j <= i
          IN SubSeq(s, first, last)

\* phrase in text
IsSubstring(phrase, text) ==
  \E i \in 1..(Len(text) - Len(phrase) + 1) :
    SubSeq(text, i, i + Len(phrase) - 1) = phrase

----------------------------------------------------------------------------
(* HallucinationDetector *)

uncertainty_phrases ==
  << <<"i", " ", "t", "h", "i", "n", "k">>,
     <<"i", "t", " ", "s", "e", "e", "m", "s">>,
     <<"p", "o", "s", "s", "i", "b", "l", "y">>,
     <<"m", "i", "g", "h", "t", " ", "b", "e">>,
     <<"n", "o", "t", " ", "s", "u", "r", "e">>,
     <<"a", "p", "p", "r", "o", "x", "i", "m", "a", "t", "e", "l", "y">>,
     <<"a", "r", "o", "u", "n", "d">>,
     <<"e", "s", "t", "i", "m", "a", "t", "e", "d">> >>

contains_uncertainty(text) ==
  LET t == lower(text)
  IN \E k \in 1..Len(uncertainty_phrases) : IsSubstring(uncertainty_phrases[k], t)

has_numeric_claim(text) == \E i \in 1..Len(text) : text[i] \in Digits

\* the weights and thresholds of score_response, in thousandths
UncertaintyWeight == 400

NumericWeight == 200

ShortWeight == 300

ShortLength == 30

ScoreCap == 1000

HallucinatedThreshold == 600

UncertainThreshold == 400

One == 1000

\* the clamp written with max for min
Min_max(a, b) == IF a <= b THEN b ELSE a

Min(a, b) == IF a <= b THEN a ELSE b

\* round(x, 2) of x thousandths: the nearest multiple of ten, ties to even
Round2(x) ==
  LET q == x \div 10
      r == x % 10
  IN IF r < 5 THEN 10 * q
     ELSE IF r > 5 THEN 10 * (q + 1)
     ELSE IF q % 2 = 0 THEN 10 * q ELSE 10 * (q + 1)

\* the contributions as an if / elif chain: only the first that applies counts
RawScore_exclusive(response_text) ==
  IF contains_uncertainty(response_text) THEN UncertaintyWeight
  ELSE IF has_numeric_claim(response_text) THEN NumericWeight
  ELSE IF Len(response_text) < ShortLength THEN ShortWeight
  ELSE 0

\* the hallucination_score before the clamp
RawScore(response_text) ==
  (IF contains_uncertainty(response_text) THEN UncertaintyWeight ELSE 0)
  + (IF has_numeric_claim(response_text) THEN NumericWeight ELSE 0)
  + (IF Len(response_text) < ShortLength THEN ShortWeight ELSE 0)

\* the normalisation of line 56
Normalize(x) == lower(strip(str(x)))

\* the result for a clamped hallucination_score
Classify(hallucination_score) ==
  LET confidence_score == Round2(One - hallucination_score)
  IN IF hallucination_score >= HallucinatedThreshold
       THEN <<1, confidence_score, "hallucinated">>
     ELSE IF hallucination_score >= UncertainThreshold
       THEN <<0, confidence_score, "uncertain">>
     ELSE <<0, confidence_score, "accurate">>

score_response(x) ==
  LET response_text == Normalize(x)
      hallucination_score == Min(RawScore(response_text), ScoreCap)
  IN Classify(hallucination_score)

----------------------------------------------------------------------------
(* float64 arithmetic of the averages.                                      *)
(* A finite double of magnitude below 16 whose last mantissa bit is worth   *)
(* at least 2^-60 is kept exactly, as a sign and the magnitude counted in   *)
(* units of 2^-60; the magnitude is a little-endian sequence of NLimbs      *)
(* limbs below Base.  Every operation is the exact operation followed by    *)
(* rounding to 53 significant bits, ties to even, as IEEE 754 defines it.   *)

Base == 2^16

NLimbs == 2 + 2

\* 2^60, the unit 1.0, is limb 4 = 2^12
UnitTopLimb == 2^12

MantissaBits == 53

MagZero == [i \in 1..NLimbs |-> 0]

MagSmall(x) == [i \in 1..NLimbs |-> IF i = 1 THEN x ELSE 0]

RECURSIVE MagAddFrom(_, _, _, _)
MagAddFrom(a, b, i, carry) ==
  IF i > NLimbs THEN <<>>
  ELSE LET s == a[i] + b[i] + carry
       IN <<s % Base>> \o MagAddFrom(a, b, i + 1, s \div Base)

MagAdd(a, b) == MagAddFrom(a, b, 1, 0)

\* a - b for a >= b
RECURSIVE MagSubFrom(_, _, _, _)
MagSubFrom(a, b, i, borrow) ==
  IF i > NLimbs THEN <<>>
  ELSE LET s == a[i] - b[i] - borrow
       IN IF s < 0 THEN <<s + Base>> \o MagSubFrom(a, b, i + 1, 1)
          ELSE <<s>> \o MagSubFrom(a, b, i + 1, 0)

MagSub(a, b) == MagSubFrom(a, b, 1, 0)

MagLess(a, b) ==
  \E i \in 1..NLimbs : a[i] < b[i] /\ \A j \in (i + 1)..NLimbs : a[j] = b[j]

\* number of significant bits of a limb, and of a magnitude
LimbBits(x) == IF x = 0 THEN 0 ELSE CHOOSE k \in 1..16 : 2^(k - 1) <= x /\ x < 2^k

BitLen(a) ==
  IF a = MagZero THEN 0
  ELSE LET top == CHOOSE i \in 1..NLimbs : a[i] # 0 /\ \A j \in (i + 1)..NLimbs : a[j] = 0
       IN 16 * (top - 1) + LimbBits(a[top])

\* quotient and remainder of a by a small n, schoolbook from the top limb
RECURSIVE MagDivFrom(_, _, _, _)
MagDivFrom(a, n, i, r) ==
  IF i = 0 THEN [q |-> <<>>, r |-> r]
  ELSE LET cur == r * Base + a[i]
           rest == MagDivFrom(a, n, i - 1, cur % n)
       IN [q |-> rest.q \o <<cur \div n>>, r |-> rest.r]

MagDivSmall(a, n) == MagDivFrom(a, n, NLimbs, 0)

\* the exact value q + r/n (0 <= r < n) rounded to 53 significant bits
RoundRational(q, r, n) ==
  LET k == BitLen(q) - MantissaBits
  IN IF k < 0 THEN q
     ELSE LET U == 2^k
              low == q[1] % U
              kept == [q EXCEPT ![1] = q[1] - low]
              odd == IF k = 16 THEN q[2] % 2 = 1 ELSE (q[1] \div U) % 2 = 1
              twice == 2 * (low * n + r)
              up == twice > n * U \/ (twice = n * U /\ odd)
          IN IF up THEN MagAdd(kept, MagSmall(U)) ELSE kept

Round53(a) == RoundRational(a, 0, 1)

Float(neg, mag) == [neg |-> neg /\ mag # MagZero, mag |-> mag]

FZero == Float(FALSE, MagZero)

\* x + y in float64
FAdd(x, y) ==
  IF x.neg = y.neg THEN Float(x.neg, Round53(MagAdd(x.mag, y.mag)))
  ELSE IF MagLess(x.mag, y.mag) THEN Float(y.neg, Round53(MagSub(y.mag, x.mag)))
  ELSE Float(x.neg, Round53(MagSub(x.mag, y.mag)))

FNeg(x) == Float(~x.neg, x.mag)

\* x - y in float64
FSub(x, y) == FAdd(x, FNeg(y))

\* x / n in float64, n a positive count
FDivInt(x, n) ==
  LET d == MagDivSmall(x.mag, n)
  IN Float(x.neg, RoundRational(d.q, d.r, n))

\* the double nearest to k thousandths, 0 <= k < 16000
Dbl(k) ==
  LET d == MagDivSmall([i \in 1..NLimbs |-> IF i = NLimbs THEN k * UnitTopLimb ELSE 0], One)
  IN Float(FALSE, RoundRational(d.q, d.r, One))

\* left-to-right summation, the loop of older pandas
RECURSIVE NaiveSum(_, _)
NaiveSum(xs, acc) ==
  IF xs = <<>> THEN acc ELSE NaiveSum(Tail(xs), FAdd(acc, Head(xs)))

\* Kahan compensated summation, the loop of pandas' group_mean since 1.3
RECURSIVE KahanSum(_, _, _)
KahanSum(xs, sumx, compensation) ==
  IF xs = <<>> THEN sumx
  ELSE LET y == FSub(Head(xs), compensation)
           t == FAdd(sumx, y)
       IN KahanSum(Tail(xs), t, FSub(FSub(t, sumx), y))

Summations == {"naive", "kahan"}

\* the float64 sum of a sequence of doubles
FSum(summation, xs) ==
  IF summation = "kahan" THEN KahanSum(xs, FZero, FZero) ELSE NaiveSum(xs, FZero)

\* the float64 mean of a non-empty sequence of doubles
FMean(summation, xs) == FDivInt(FSum(summation, xs), Len(xs))

----------------------------------------------------------------------------
(* DataFrames: the set of column names and the sequence of rows, each row   *)
(* a function from the column names to the cell values.                     *)

Frame(cols, rows) == [cols |-> cols, rows |-> rows]

\* the outcome of a call: the exception raised (or "none"), the value
\* returned (<<>> when the call raised) and the caller's frame after it
Raise(exc, d) == [err |-> exc, out |-> <<>>, df |-> d]

Return(result, d) == [err |-> "none", out |-> <<result>>, df |-> d]

\* a copy of d with the columns of new set row by row: new[i][c] is the
\* cell of column c in row i
Assign(d, newcols, new) ==
  Frame(d.cols \cup newcols,
        [i \in 1..Len(d.rows) |->
           [c \in d.cols \cup newcols |->
              IF c \in newcols THEN new[i][c] ELSE d.rows[i][c]]])

ClassifiedCols == {"hallucination_flag", "confidence_score", "final_label"}

\* an accurate, an uncertain and a hallucinated response
BatchTexts ==
  { Str(<<"Y", "e", "s", ".">>),
    Str(<<"I", " ", "t", "h", "i", "n", "k", " ",
          "P", "a", "r", "i", "s", " ", "i", "s", " ", "a", " ", "c", "a", "p", "i",
          "t", "a", "l", " ", "o", "f", " ", "F", "r", "a", "n", "c", "e", ".">>),
    Str(<<"A", "p", "p", "r", "o", "x", "i", "m", "a", "t", "e", "l", "y", " ", "4", "2">>) }

\* score_response as .apply() maps it over the column, tabulated over the
\* response texts of the batch inputs
apply_score_response == [x \in BatchTexts |-> score_response(x)]


\* analyze_dataframe without the df.copy(): the columns are set on the
\* caller's frame
analyze_dataframe_inplace(d) ==
  IF "response_text" \notin d.cols
    THEN Raise("ValueError", d)
  ELSE LET outputs == [i \in 1..Len(d.rows) |-> apply_score_response[d.rows[i]["response_text"]]]
           results == Assign(d, ClassifiedCols,
                             [i \in 1..Len(d.rows) |->
                                [hallucination_flag |-> outputs[i][1],
                                 confidence_score |-> outputs[i][2],
                                 final_label |-> outputs[i][3]]])
       IN Return(results, results)

analyze_dataframe(d) ==
  IF "response_text" \notin d.cols
    THEN Raise("ValueError", d)
  ELSE LET outputs == [i \in 1..Len(d.rows) |-> apply_score_response[d.rows[i]["response_text"]]]
           results == Assign(d, ClassifiedCols,
                             [i \in 1..Len(d.rows) |->
                                [hallucination_flag |-> outputs[i][1],
                                 confidence_score |-> outputs[i][2],
                                 final_label |-> outputs[i][3]]])
       IN Return(results, d)

\* the weight of the flag in the risk score, in thousandths
FlagWeight == 500

\* the risk score without the flag term
RiskScore_noflag(confidence_score, hallucination_flag) ==
  Round2(One - confidence_score)

\* (1 - confidence_score) + hallucination_flag * 0.5, rounded to 2 decimals
RiskScore(confidence_score, hallucination_flag) ==
  Round2((One - confidence_score) + hallucination_flag * FlagWeight)

compute_final_score(d) ==
  IF ~(ClassifiedCols \subseteq d.cols)
    THEN Raise("ValueError", d)
  ELSE LET scored_df == Assign(d, {"hallucination_risk_score"},
                               [i \in 1..Len(d.rows) |->
                                  [hallucination_risk_score |->
                                     RiskScore(d.rows[i]["confidence_score"],
                                               d.rows[i]["hallucination_flag"])]])
       IN Return(scored_df, d)

\* the model names, in the order groupby sorts its keys
ModelNames == <<"Model-A", "Model-B">>

\* the columns the named aggregations read
AggregatedCols == {"final_label", "confidence_score", "hallucination_risk_score"}

\* the keys without deduplication: one per row
GroupKeys_perrow(d) == [i \in 1..Len(d.rows) |-> d.rows[i]["model_name"]]

\* the group keys of d, sorted
GroupKeys(d) ==
  SelectSeq(ModelNames, LAMBDA m : \E i \in 1..Len(d.rows) : d.rows[i]["model_name"] = m)

\* the rows of one group, in the order of d
Group(d, m) == SelectSeq(d.rows, LAMBDA r : r["model_name"] = m)

\* (x != "accurate").sum() for either count
CountLabel_notaccurate(group, label) ==
  Len(SelectSeq(group, LAMBDA r : r["final_label"] # "accurate"))

\* (x == label).sum()
CountLabel(group, label) == Len(SelectSeq(group, LAMBDA r : r["final_label"] = label))

\* the "first" aggregation in place of "mean"
Mean_first(summation, group, col) == Dbl(group[1][col])

\* the "mean" aggregation of a float column holding thousandths
Mean(summation, group, col) ==
  FMean(summation, [i \in 1..Len(group) |-> Dbl(group[i][col])])

\* the rate truncated to 2 decimals instead of rounded
RoundedRate_truncate(count, total) == 10 * ((One * count) \div (10 * total))

\* (hallucinated_count / total_responses).round(2), in thousandths
RoundedRate(count, total) ==
  LET scaled == One * count
      q == scaled \div total
      r == scaled % total
      lo == 10 * (q \div 10)
      twice == 2 * ((q % 10) * total + r)
  IN IF twice < 10 * total THEN lo
     ELSE IF twice > 10 * total THEN lo + 10
     ELSE IF (q \div 10) % 2 = 0 THEN lo ELSE lo + 10

\* one row of the summary: the aggregations of one group
SummaryRow(summation, m, group) ==
  LET total_responses == Len(group)
      hallucinated_count == CountLabel(group, "hallucinated")
  IN [model_name |-> m,
      total_responses |-> total_responses,
      hallucinated_count |-> hallucinated_count,
      uncertain_count |-> CountLabel(group, "uncertain"),
      avg_confidence_score |-> Mean(summation, group, "confidence_score"),
      avg_risk_score |-> Mean(summation, group, "hallucination_risk_score"),
      hallucination_rate |-> RoundedRate(hallucinated_count, total_responses)]

SummaryCols == {"model_name", "total_responses", "hallucinated_count", "uncertain_count",
                "avg_confidence_score", "avg_risk_score", "hallucination_rate"}

generate_model_summary(d, summation) ==
  IF "model_name" \notin d.cols
    THEN Raise("ValueError", d)
  ELSE IF ~(AggregatedCols \subseteq d.cols)
    THEN Raise("KeyError", d)
  ELSE LET keys == GroupKeys(d)
           summary == Frame(SummaryCols,
                            [k \in 1..Len(keys) |->
                               SummaryRow(summation, keys[k], Group(d, keys[k]))])
       IN Return(summary, d)

----------------------------------------------------------------------------
(* Inputs of the detector *)

Tokens ==
  { <<"A", "p", "p", "r", "o", "x", "i", "m", "a", "t", "e", "l", "y">>,
    <<" ">>,
    <<"\t">>,
    <<"4", "2">>,
    <<"Y", "e", "s", ".">>,
    <<"I", " ", "t", "h", "i", "n", "k">>,
    <<"M", "I", "G", "H", "T", " ", "B", "E">>,
    <<"P", "a", "r", "i", "s", " ", "i", "s", " ", "a", " ", "c", "a", "p", "i",
      "t", "a", "l", " ", "o", "f", " ", "F", "r", "a", "n", "c", "e", ".">> }

RECURSIVE Concat(_)
Concat(ts) == IF ts = <<>> THEN <<>> ELSE Head(ts) \o Concat(Tail(ts))

Texts == {Concat(ts) : ts \in UNION {[1..n -> Tokens] : n \in 0..MaxTokens}}

Inputs == {Str(t) : t \in Texts} \cup {None, NaN}

NoRet == <<>>

InitDetector ==
  /\ arg \in Inputs
  /\ ret = NoRet
  /\ df = Frame({}, <<>>)
  /\ out = <<>>
  /\ err = "none"
  /\ op = "init"
  /\ sum_algo = "kahan"

\* one call of score_response
ScoreResponse ==
  /\ ret = NoRet
  /\ ret' = score_response(arg)
  /\ op' = "score_response"
  /\ UNCHANGED <<arg, df, out, err, sum_algo>>

NextDetector == ScoreResponse

SpecDetector == InitDetector /\ [][NextDetector]_vars

----------------------------------------------------------------------------
(* Inputs of the batch operations *)

RawCols == {"model_name", "response_text"}

RawRows ==
  [model_name : {ModelNames[i] : i \in 1..Len(ModelNames)}, response_text : BatchTexts]

\* classified rows as a caller may hand them to the scorer directly
ClassifiedRows ==
  [model_name : {ModelNames[1]},
   hallucination_flag : {0},
   confidence_score : {125, 375},
   final_label : {"uncertain"}]
  \cup
  [model_name : {ModelNames[1]},
   hallucination_flag : {1},
   confidence_score : {125, 375},
   final_label : {"hallucinated"}]

Restrict(row, cols) == [c \in cols |-> row[c]]

\* the frames of 1..MaxRows rows over the given rows, with the given columns
Frames(rowset, cols) ==
  {Frame(cols, [i \in 1..Len(rows) |-> Restrict(rows[i], cols)]) :
     rows \in UNION {[1..n -> rowset] : n \in 1..MaxRows}}

\* the shapes: every column present, or one column missing
Shapes(all) == {all} \cup {all \ {c} : c \in all}

InputFrames ==
  UNION {Frames(RawRows, cols) : cols \in SUBSET RawCols}
  \cup UNION {Frames(ClassifiedRows, cols) :
                cols \in Shapes(ClassifiedCols \cup {"model_name"})}

InitBatch ==
  /\ df \in InputFrames
  /\ out = <<>>
  /\ err = "none"
  /\ op = "init"
  /\ arg = None
  /\ ret = NoRet
  /\ sum_algo \in Summations

\* what a call leaves behind
Called(name, outcome) ==
  /\ df' = outcome.df
  /\ out' = outcome.out
  /\ err' = outcome.err
  /\ op' = name
  /\ UNCHANGED <<arg, ret, sum_algo>>

Idle == out = <<>> /\ err = "none"

AnalyzeDataframe ==
  /\ Idle
  /\ Called("analyze_dataframe", analyze_dataframe(df))

ComputeFinalScore ==
  /\ Idle
  /\ Called("compute_final_score", compute_final_score(df))

GenerateModelSummary ==
  /\ Idle
  /\ Called("generate_model_summary", generate_model_summary(df, sum_algo))

\* df = f(df): the pipeline hands the result of one stage to the next
Pipe ==
  /\ out # <<>>
  /\ df' = out[1]
  /\ out' = <<>>
  /\ op' = "pipe"
  /\ UNCHANGED <<arg, ret, err, sum_algo>>

Next == AnalyzeDataframe \/ ComputeFinalScore \/ GenerateModelSummary \/ Pipe

Spec == InitBatch /\ [][Next]_vars

----------------------------------------------------------------------------
(* Properties of the detector, checked under SpecDetector *)

Returned == ret # NoRet

Bit(b) == IF b THEN 1 ELSE 0

\* the three contributions, read off the argument
ArgText == lower(strip(str(arg)))

ArgUncertain == \E k \in 1..Len(uncertainty_phrases) : IsSubstring(uncertainty_phrases[k], ArgText)

ArgNumeric == \E i \in 1..Len(ArgText) : ArgText[i] \in Digits

ArgShort == Len(ArgText) < 30

ArgSum == 400 * Bit(ArgUncertain) + 200 * Bit(ArgNumeric) + 300 * Bit(ArgShort)

\* C1: score_response returns confidence = 1 - score, where score =
\* 0.4*[uncertainty phrase] + 0.2*[digit] + 0.3*[length < 30] capped at 1.0,
\* with (1, "hallucinated") when score >= 0.6, (0, "uncertain") when
\* 0.4 <= score < 0.6 and (0, "accurate") otherwise; the flag is 1 exactly
\* when the label is "hallucinated".
C1_ScoreContract ==
  Returned =>
    LET score == IF ArgSum > 1000 THEN 1000 ELSE ArgSum
    IN /\ ret[2] = 1000 - score
       /\ score >= 600 => ret[1] = 1 /\ ret[3] = "hallucinated"
       /\ (400 <= score /\ score < 600) => ret[1] = 0 /\ ret[3] = "uncertain"
       /\ score < 400 => ret[1] = 0 /\ ret[3] = "accurate"
       /\ ret[1] = 1 <=> ret[3] = "hallucinated"

\* "42": a digit and a short text, 0.2 + 0.3, labelled uncertain
C1_Witness == arg = Str(<<"4", "2">>) /\ ret = <<0, 500, "uncertain">>

\* C2 as stated: a response with all three contributions gets confidence
\* 0.00, flag 1 and the label "hallucinated".
C2_ClampedToOne ==
  (Returned /\ ArgUncertain /\ ArgNumeric /\ ArgShort) => ret = <<1, 0, "hallucinated">>

\* C2 as amended: a response with all three contributions scores
\* 0.4 + 0.2 + 0.3 = 0.9, which the cap of 1.0 leaves alone: confidence 0.10,
\* flag 1, label "hallucinated".
C2_AllThreeScoreNineTenths ==
  (Returned /\ ArgUncertain /\ ArgNumeric /\ ArgShort) => ret = <<1, 100, "hallucinated">>

\* "Approximately 42" has been scored
C2_Witness ==
  /\ arg = Str(<<"A", "p", "p", "r", "o", "x", "i", "m", "a", "t", "e", "l", "y", " ", "4", "2">>)
  /\ ret = <<1, 100, "hallucinated">>

\* C10: score_response returns for a missing value (None, nan) what it
\* returns for the empty string: flag 0, confidence 0.70, label "accurate".
C10_MissingAsEmpty ==
  /\ (Returned /\ arg \in {None, NaN}) => ret = <<0, 700, "accurate">>
  /\ (Returned /\ arg = Str(<<>>)) => ret = <<0, 700, "accurate">>

C10_Witness == arg = NaN /\ ret = <<0, 700, "accurate">>

----------------------------------------------------------------------------
(* Properties of the batch operations, checked under Spec *)

Succeeded(name) == op = name /\ err = "none" /\ out # <<>>

Abs(x) == IF x < 0 THEN -x ELSE x

\* r hundredths-in-thousandths is num/den thousandths rounded to 2 decimals,
\* ties to even
IsRounded(r, num, den) ==
  /\ r % 10 = 0
  /\ Abs(r * den - num) * 2 <= 10 * den
  /\ Abs(r * den - num) * 2 = 10 * den => (r \div 10) % 2 = 0

\* C3: every row compute_final_score returns carries
\* hallucination_risk_score = round((1 - confidence_score) + flag * 0.5, 2)
\* of its own confidence_score and flag; there is one output row per input
\* row and the other cells are the input's.
C3_RiskScorePerRow ==
  Succeeded("compute_final_score") =>
    /\ Len(out[1].rows) = Len(df.rows)
    /\ out[1].cols = df.cols \cup {"hallucination_risk_score"}
    /\ \A i \in 1..Len(df.rows) :
         /\ IsRounded(out[1].rows[i]["hallucination_risk_score"],
                      (1000 - df.rows[i]["confidence_score"])
                        + df.rows[i]["hallucination_flag"] * 500, 1)
         /\ \A c \in df.cols \ {"hallucination_risk_score"} :
              out[1].rows[i][c] = df.rows[i][c]

\* two rows scored differently, both on a tie of the rounding
C3_Witness ==
  /\ Succeeded("compute_final_score")
  /\ Len(df.rows) >= 2
  /\ df.rows[1]["confidence_score"] = 125 /\ df.rows[1]["hallucination_flag"] = 1
  /\ out[1].rows[1]["hallucination_risk_score"] = 1380
  /\ df.rows[2]["confidence_score"] = 375 /\ df.rows[2]["hallucination_flag"] = 0
  /\ out[1].rows[2]["hallucination_risk_score"] = 620

\* the input rows of a model with a label
RowsOf(m) == {i \in 1..Len(df.rows) : df.rows[i]["model_name"] = m}

LabelledRowsOf(m, label) == {i \in RowsOf(m) : df.rows[i]["final_label"] = label}

\* C4: in every summary row the two counts are the numbers of the group's
\* rows with that label, hallucinated_count + uncertain_count <=
\* total_responses, and hallucination_rate is hallucinated_count /
\* total_responses rounded to 2 decimals, within [0, 1].
C4_SummaryCounts ==
  Succeeded("generate_model_summary") =>
    \A k \in 1..Len(out[1].rows) :
      LET s == out[1].rows[k]
      IN /\ s.hallucinated_count = Cardinality(LabelledRowsOf(s.model_name, "hallucinated"))
         /\ s.uncertain_count = Cardinality(LabelledRowsOf(s.model_name, "uncertain"))
         /\ s.hallucinated_count + s.uncertain_count <= s.total_responses
         /\ IsRounded(s.hallucination_rate, 1000 * s.hallucinated_count, s.total_responses)
         /\ 0 <= s.hallucination_rate /\ s.hallucination_rate <= 1000

C4_Witness ==
  /\ Succeeded("generate_model_summary")
  /\ \E k \in 1..Len(out[1].rows) :
       /\ out[1].rows[k].total_responses = 3
       /\ out[1].rows[k].hallucinated_count = 1
       /\ out[1].rows[k].uncertain_count = 1
       /\ out[1].rows[k].hallucination_rate = 330

RECURSIVE SumTotals(_)
SumTotals(rows) ==
  IF rows = <<>> THEN 0 ELSE Head(rows).total_responses + SumTotals(Tail(rows))

\* C6: the summary has exactly one row per distinct model_name of the input,
\* each with total_responses = the number of input rows of that model
\* (at least 1), and the total_responses add up to the number of input rows.
C6_OneSummaryPerModel ==
  Succeeded("generate_model_summary") =>
    LET names == {df.rows[i]["model_name"] : i \in 1..Len(df.rows)}
        summary == out[1].rows
    IN /\ {summary[k].model_name : k \in 1..Len(summary)} = names
       /\ Len(summary) = Cardinality(names)
       /\ \A k \in 1..Len(summary) :
            /\ summary[k].total_responses = Cardinality(RowsOf(summary[k].model_name))
            /\ summary[k].total_responses >= 1
       /\ SumTotals(summary) = Len(df.rows)

C6_Witness ==
  /\ Succeeded("generate_model_summary")
  /\ Len(df.rows) = 3
  /\ Len(out[1].rows) = 2
  /\ out[1].rows[1].total_responses = 2
  /\ out[1].rows[2].total_responses = 1

Calls == {"analyze_dataframe", "compute_final_score", "generate_model_summary"}

\* the columns a call checks for before it touches a row
Required(name) ==
  CASE name = "analyze_dataframe" -> {"response_text"}
    [] name = "compute_final_score" -> {"hallucination_flag", "confidence_score", "final_label"}
    [] name = "generate_model_summary" -> {"model_name"}

\* the columns a successful call adds to every row
Added(name) ==
  CASE name = "analyze_dataframe" -> {"hallucination_flag", "confidence_score", "final_label"}
    [] name = "compute_final_score" -> {"hallucination_risk_score"}

\* C7: a batch operation whose input lacks a required column fails with
\* ValueError (the schema error) without returning anything and without
\* changing the caller's frame; analyze and compute_final_score on an input
\* that has the columns return every row of it, classified or scored, and
\* leave the caller's frame as it was.
C7_FailFastAllOrNothing ==
  [][\A name \in Calls :
       op' = name =>
         /\ df' = df
         /\ ~(Required(name) \subseteq df.cols) => err' = "ValueError" /\ out' = <<>>
         /\ (Required(name) \subseteq df.cols /\ name # "generate_model_summary") =>
              /\ err' = "none"
              /\ out' # <<>>
              /\ Len(out'[1].rows) = Len(df.rows)
              /\ \A i \in 1..Len(df.rows) : Added(name) \subseteq DOMAIN out'[1].rows[i]]_vars

\* compute_final_score has refused a frame of two or more rows
C7_Witness ==
  /\ op = "compute_final_score"
  /\ err = "ValueError"
  /\ out = <<>>
  /\ Len(df.rows) >= 2
  /\ "final_label" \notin df.cols

\* C8 as stated: a batch operation either returns a result or fails with
\* ValueError (the schema error), whatever columns its input has.
C8_OnlySchemaError ==
  op \in Calls => \/ err = "none" /\ out # <<>>
                  \/ err = "ValueError" /\ out = <<>>

\* the permutations of 1..n
Perms == [n \in 0..MaxRows |-> {p \in [1..n -> 1..n] : \A i, j \in 1..n : p[i] = p[j] => i = j}]

Permute(d, p) == Frame(d.cols, [i \in 1..Len(d.rows) |-> d.rows[p[i]]])

\* the rows of a sequence at the indices of S, in order
Part(rows, S) == SelectSeq([i \in 1..Len(rows) |-> IF i \in S THEN <<rows[i]>> ELSE <<>>],
                           LAMBDA x : x # <<>>)

\* the accumulator of one worker: counts and running sums over its rows
Accumulate(part) ==
  [count |-> Len(part),
   hallucinated |-> Len(SelectSeq(part, LAMBDA x : x[1]["final_label"] = "hallucinated")),
   uncertain |-> Len(SelectSeq(part, LAMBDA x : x[1]["final_label"] = "uncertain")),
   confidence |-> FSum(sum_algo, [i \in 1..Len(part) |-> Dbl(part[i][1]["confidence_score"])]),
   risk |-> FSum(sum_algo, [i \in 1..Len(part) |-> Dbl(part[i][1]["hallucination_risk_score"])])]

\* two accumulators merged, then the final division
MergedSummary(m, a, b) ==
  LET count == a.count + b.count
      hallucinated == a.hallucinated + b.hallucinated
  IN [model_name |-> m,
      total_responses |-> count,
      hallucinated_count |-> hallucinated,
      uncertain_count |-> a.uncertain + b.uncertain,
      avg_confidence_score |-> FDivInt(FAdd(a.confidence, b.confidence), count),
      avg_risk_score |-> FDivInt(FAdd(a.risk, b.risk), count),
      hallucination_rate |-> RoundedRate(hallucinated, count)]

\* the summaries of every permutation of the input rows
PermutedSummaries ==
  {generate_model_summary(Permute(df, p), sum_algo).out[1].rows : p \in Perms[Len(df.rows)]}

\* for the k-th model, the summaries of every split of its rows over two workers
MergedSummaries(k) ==
  LET m == out[1].rows[k].model_name
      group == Group(df, m)
  IN {MergedSummary(m, Accumulate(Part(group, S)),
                       Accumulate(Part(group, (1..Len(group)) \ S))) :
        S \in SUBSET (1..Len(group))}

\* C9 as stated: the summary of every permutation of the input rows, and
\* the summary merged from partial counts and sums of any split of a group,
\* is the summary of the single pass, averages included.
C9_SameSummaryAnyOrder ==
  Succeeded("generate_model_summary") =>
    /\ \A summary \in PermutedSummaries : summary = out[1].rows
    /\ \A k \in 1..Len(out[1].rows) : \A s \in MergedSummaries(k) : s = out[1].rows[k]

\* 2^-50 in units of 2^-60
Tolerance == MagSmall(2^10)

\* two non-negative doubles within 2^-50 of each other
FClose(x, y) ==
  LET gap == IF MagLess(x.mag, y.mag) THEN MagSub(y.mag, x.mag) ELSE MagSub(x.mag, y.mag)
  IN ~MagLess(Tolerance, gap)

\* two summary rows equal but for the last bits of the averages
SameUpToRounding(s, t) ==
  /\ s.model_name = t.model_name
  /\ s.total_responses = t.total_responses
  /\ s.hallucinated_count = t.hallucinated_count
  /\ s.uncertain_count = t.uncertain_count
  /\ s.hallucination_rate = t.hallucination_rate
  /\ FClose(s.avg_confidence_score, t.avg_confidence_score)
  /\ FClose(s.avg_risk_score, t.avg_risk_score)

\* C9 as amended: for every permutation of the input rows and every split
\* of a group into partial counts and sums, total_responses,
\* hallucinated_count, uncertain_count and hallucination_rate are those of
\* the single pass, and the two averages agree with it up to the rounding
\* of the float64 summation (here within 2^-50), not bit for bit.
C9_SameSummaryUpToRounding ==
  Succeeded("generate_model_summary") =>
    /\ \A summary \in PermutedSummaries :
         /\ Len(summary) = Len(out[1].rows)
         /\ \A k \in 1..Len(summary) : SameUpToRounding(summary[k], out[1].rows[k])
    /\ \A k \in 1..Len(out[1].rows) :
         \A s \in MergedSummaries(k) : SameUpToRounding(s, out[1].rows[k])

\* three rows of one model whose averages depend on the order of the rows
C9_Witness ==
  /\ Succeeded("generate_model_summary")
  /\ Len(df.rows) = 3
  /\ Len(out[1].rows) = 1
  /\ \E summary \in PermutedSummaries :
       summary[1].avg_risk_score # out[1].rows[1].avg_risk_score

====
